---- MODULE Spec2Model ----
(***************************************************************************)
(* Model of .github/workflows/create-bcr-entry.mjs: the script that adds   *)
(* a new version entry of a module to a local checkout of a registry.      *)
(*                                                                         *)
(* A JavaScript string is a sequence of atoms (TLA+ strings); the          *)
(* sequence stands for the concatenation of its atoms.  A version tag is   *)
(* spelled character by character, a template is spelled with one atom    *)
(* per placeholder word and per piece of literal text.  The placeholder    *)
(* OWNER_SLASH_REPO_PLACEHOLDER is the two atoms "OWNER_SLASH_" and        *)
(* "REPO_PLACEHOLDER", because the second word is a substring of it.       *)
(* A path is a sequence of strings, one per component.                     *)
(*                                                                         *)
(* One process runs at a time (the script takes no lock and is meant to    *)
(* be run one release at a time).  The download ends with the response's   *)
(* "end" or with an error; the response body is any sequence of bytes.     *)
(* The SHA-256 digest is modelled as free of collisions.                   *)
(***************************************************************************)
EXTENDS Integers, Sequences, FiniteSets, TLC

VARIABLES
    fs,        \* the file tree: path -> node
    pc,        \* position of the running process in main ("idle": none)
    argv,      \* process.argv.slice(2) of the current (or last) run
    version,   \* const version of main
    moduleName,\* const moduleName of main
    exit,      \* exit status of the last finished run ("none" before any)
    runs,      \* number of invocations started
    received,  \* history: response-body bytes received in this run
    done,      \* history: steps of main completed in this run
    fs0        \* history: the file tree when this run started

vars == <<fs, pc, argv, version, moduleName, exit, runs, received, done, fs0>>

----------------------------------------------------------------------------
(* Bounds *)

MaxRuns == 2
MaxChunks == 1
MaxLen == 3

----------------------------------------------------------------------------
(* Strings *)

\* UTF-16 code unit of the characters version strings are spelled with
CharCode(c) ==
    CASE c = "." -> 46
      [] c = "0" -> 48
      [] c = "1" -> 49
      [] c = "2" -> 50
      [] c = "v" -> 118

\* a < b in the order Array.prototype.sort uses without a comparator:
\* code unit by code unit, a proper prefix first
RECURSIVE StrLess(_, _)
StrLess(a, b) ==
    IF b = <<>> THEN FALSE
    ELSE IF a = <<>> THEN TRUE
    ELSE IF CharCode(Head(a)) < CharCode(Head(b)) THEN TRUE
    ELSE IF CharCode(Head(a)) > CharCode(Head(b)) THEN FALSE
    ELSE StrLess(Tail(a), Tail(b))

\* String.prototype.startsWith
StartsWith(s, prefix) ==
    /\ Len(s) >= Len(prefix)
    /\ SubSeq(s, 1, Len(prefix)) = prefix

\* String.prototype.indexOf, 1-based; 0 when pat does not occur in s
IndexOf(s, pat) ==
    LET hits == {i \in 1..(Len(s) - Len(pat) + 1) :
                    SubSeq(s, i, i + Len(pat) - 1) = pat}
    IN  IF hits = {} THEN 0 ELSE CHOOSE i \in hits : \A j \in hits : i <= j

\* String.prototype.substring(from) with a 0-based from
Substring(s, from) == SubSeq(s, from + 1, Len(s))

\* String.prototype.replace(pat, rep) with a string pattern: the first
\* occurrence only
ReplaceFirst(s, pat, rep) ==
    LET i == IndexOf(s, pat)
    IN  IF i = 0 THEN s
        ELSE SubSeq(s, 1, i - 1) \o rep \o SubSeq(s, i + Len(pat), Len(s))

\* String.prototype.replace(/pat/g, rep): every occurrence, left to right,
\* the text put in is not searched again
RECURSIVE ReplaceAll(_, _, _)
ReplaceAll(s, pat, rep) ==
    LET i == IndexOf(s, pat)
    IN  IF i = 0 THEN s
        ELSE SubSeq(s, 1, i - 1) \o rep
             \o ReplaceAll(SubSeq(s, i + Len(pat), Len(s)), pat, rep)

\* the value of a function that returns without a return statement
Undefined == <<"<undefined>">>

REPO_PLACEHOLDER == <<"REPO_PLACEHOLDER">>
OWNER_SLASH_REPO_PLACEHOLDER == <<"OWNER_SLASH_", "REPO_PLACEHOLDER">>
VERSION_PLACEHOLDER == <<"VERSION_PLACEHOLDER">>
SHA256_PLACEHOLDER == <<"SHA256_PLACEHOLDER">>

----------------------------------------------------------------------------
(* normalizeVersion *)

normalizeVersion(tag) ==
    IF StartsWith(tag, <<"v">>) THEN Substring(tag, 1) ELSE Undefined

----------------------------------------------------------------------------
(* The file tree *)

NoEnt == [kind |-> "none", data |-> <<>>]
Dir == [kind |-> "dir", data |-> <<>>]
File(data) == [kind |-> "file", data |-> data]

\* path.resolve(base, s): an empty segment adds nothing
Resolve(base, s) == IF s = <<>> THEN base ELSE Append(base, s)

Parent(p) == SubSeq(p, 1, Len(p) - 1)

\* the working directory (the empty path) is a directory throughout
IsDir(f, p) == p = <<>> \/ f[p].kind = "dir"
IsFile(f, p) == p # <<>> /\ f[p].kind = "file"

\* fs.existsSync
existsSync(f, p) == p = <<>> \/ f[p].kind # "none"

\* faulty variant: mkdirSync that accepts a directory that is already there
mkdirFailsOnlyWithoutParent(f, p) == ~IsDir(f, Parent(p))

\* fs.mkdirSync without recursive: EEXIST, or ENOENT for a missing parent
mkdirFails(f, p) == existsSync(f, p) \/ ~IsDir(f, Parent(p))
mkdirSync(f, p) == [f EXCEPT ![p] = Dir]

\* fs.writeFileSync: ENOENT for a missing parent, EISDIR for a directory
writeFails(f, p) == ~IsDir(f, Parent(p)) \/ IsDir(f, p)
writeFileSync(f, p, data) == [f EXCEPT ![p] = File(data)]

\* fs.appendFileSync: creates the file when it is absent
appendFileSync(f, p, data) == [f EXCEPT ![p] = File(f[p].data \o data)]

\* fs.copyFileSync: the source must be a file, the destination writable
copyFails(f, src, dest) == ~IsFile(f, src) \/ writeFails(f, dest)
copyFileSync(f, src, dest) == [f EXCEPT ![dest] = File(f[src].data)]

----------------------------------------------------------------------------
(* JSON text of a metadata record.  Whitespace, which JSON.parse skips,   *)
(* is left out of the text; a version is written between quote atoms.     *)

RECURSIVE JoinQuoted(_)
JoinQuoted(vs) ==
    IF vs = <<>> THEN <<>>
    ELSE <<"\"">> \o Head(vs) \o <<"\"">>
         \o (IF Len(vs) > 1 THEN <<",">> ELSE <<>>) \o JoinQuoted(Tail(vs))

\* JSON.stringify(metadata, null, 4) + "\n"
JSONStringify(metadata) ==
    <<"{", "\"versions\":", "[">> \o JoinQuoted(metadata.versions)
        \o <<"]", "}", "\n">>

\* the elements of a JSON array of strings, read from after its "[":
\* inStr says whether the scan is inside a string, cur is its text so far
RECURSIVE ParseElems(_, _, _)
ParseElems(s, inStr, cur) ==
    IF s = <<>> THEN <<>>
    ELSE IF inStr
         THEN IF Head(s) = "\"" THEN <<cur>> \o ParseElems(Tail(s), FALSE, <<>>)
              ELSE ParseElems(Tail(s), TRUE, Append(cur, Head(s)))
    ELSE IF Head(s) = "\"" THEN ParseElems(Tail(s), TRUE, <<>>)
    ELSE IF Head(s) = "]" THEN <<>>
    ELSE ParseElems(Tail(s), FALSE, <<>>)

\* JSON.parse of a metadata file
JSONParse(text) ==
    [versions |->
        ParseElems(Substring(text, IndexOf(text, <<"[">>)), FALSE, <<>>)]

\* Array.prototype.sort() without a comparator
RECURSIVE SortInsert(_, _)
SortInsert(x, sorted) ==
    IF sorted = <<>> THEN <<x>>
    ELSE IF StrLess(x, Head(sorted)) THEN <<x>> \o sorted
    ELSE <<Head(sorted)>> \o SortInsert(x, Tail(sorted))

\* faulty variant: the list is left in the order of the push
NoSort(s) == s

RECURSIVE Sort(_)
Sort(s) == IF s = <<>> THEN <<>> ELSE SortInsert(Head(s), Sort(Tail(s)))

----------------------------------------------------------------------------
(* The steps of main, as functions of the file tree.  Each returns        *)
(* [ok, fs]: ok is FALSE when the step throws, fs is the tree it leaves.  *)

Threw(f) == [ok |-> FALSE, fs |-> f]
Returned(f) == [ok |-> TRUE, fs |-> f]

\* the atoms \w+ matches in a manifest
IsWord(a) == a \in {"foo"}

\* the places where name\s*=\s*"(\w+)" matches after position i
NameDecls(t, i) ==
    {j \in (i + 1)..(Len(t) - 2) :
        t[j] = "name = \"" /\ IsWord(t[j + 1]) /\ t[j + 2] = "\""}

ModuleTemplatePath(projectPath) ==
    Resolve(Resolve(<<projectPath>>, <<".bcr">>), <<"MODULE.template.bazel">>)

\* getModuleName throws: the template cannot be read or the regex finds
\* no match
getModuleNameThrows(f, projectPath) ==
    LET modulePath == ModuleTemplatePath(projectPath)
    IN  \/ ~IsFile(f, modulePath)
        \/ LET t == f[modulePath].data
               i == IndexOf(t, <<"module(">>)
           IN  i = 0 \/ NameDecls(t, i) = {}

\* match[1] of /module\(.*?name\s*=\s*"(\w+)"/s: the first name after
\* the first "module("
getModuleName(f, projectPath) ==
    LET t == f[ModuleTemplatePath(projectPath)].data
        i == IndexOf(t, <<"module(">>)
        ds == NameDecls(t, i)
        j == CHOOSE k \in ds : \A l \in ds : k <= l
    IN  <<t[j + 1]>>

writeMetadataFile(f, bcrEntryPath, projectPath, ver) ==
    LET bcrMetadataPath == Resolve(bcrEntryPath, <<"metadata.json">>)
        template == Resolve(Resolve(<<projectPath>>, <<".bcr">>),
                            <<"metadata.template.json">>)
        missing == ~existsSync(f, bcrMetadataPath)
        f1 == IF missing THEN copyFileSync(f, template, bcrMetadataPath)
              ELSE f
        metadata == JSONParse(f1[bcrMetadataPath].data)
        merged == [versions |-> Sort(Append(metadata.versions, ver))]
    IN  IF missing /\ copyFails(f, template, bcrMetadataPath) THEN Threw(f)
        ELSE IF ~IsFile(f1, bcrMetadataPath) THEN Threw(f1)
        ELSE Returned(writeFileSync(f1, bcrMetadataPath, JSONStringify(merged)))

\* the substitutions of writeModuleFile
StampModule(moduleContent, ownerSlashRepo, ver) ==
    ReplaceFirst(ReplaceFirst(moduleContent, REPO_PLACEHOLDER, ownerSlashRepo),
                 VERSION_PLACEHOLDER, ver)

writeModuleFile(f, projectPath, bcrVersionEntryPath, ownerSlashRepo, ver) ==
    LET modulePath == ModuleTemplatePath(projectPath)
        dest == Resolve(bcrVersionEntryPath, <<"MODULE.bazel">>)
    IN  IF ~IsFile(f, modulePath) \/ writeFails(f, dest) THEN Threw(f)
        ELSE Returned(writeFileSync(f, dest,
                 StampModule(f[modulePath].data, ownerSlashRepo, ver)))

\* crypto's SHA-256 digest in base64: one distinct string per content
Sha256Base64(bytes) == <<"b64(">> \o bytes \o <<")">>

\* ownerSlashRepo.substring(ownerSlashRepo.indexOf("/") + 1)
RepoOf(ownerSlashRepo) ==
    Substring(ownerSlashRepo, IndexOf(ownerSlashRepo, <<"/">>))

\* the substitutions of writeSourceFile
StampSource(sourceContent, ownerSlashRepo, ver, digest) ==
    ReplaceFirst(
        ReplaceFirst(
            ReplaceFirst(
                ReplaceAll(sourceContent, VERSION_PLACEHOLDER, ver),
                REPO_PLACEHOLDER, RepoOf(ownerSlashRepo)),
            OWNER_SLASH_REPO_PLACEHOLDER, ownerSlashRepo),
        SHA256_PLACEHOLDER, <<"sha256-">> \o digest)

ArtifactPath == <<<<"artifact.tar.gz">>>>

\* writeSourceFile from the end of the download on
writeSourceFileRest(f, projectPath, bcrVersionEntryPath, ownerSlashRepo, ver) ==
    LET sourcePath == Resolve(Resolve(<<projectPath>>, <<".bcr">>),
                              <<"source.template.json">>)
        dest == Resolve(bcrVersionEntryPath, <<"source.json">>)
    IN  IF ~IsFile(f, ArtifactPath) \/ ~IsFile(f, sourcePath)
           \/ writeFails(f, dest)
        THEN Threw(f)
        ELSE Returned(writeFileSync(f, dest,
                 StampSource(f[sourcePath].data, ownerSlashRepo, ver,
                             Sha256Base64(f[ArtifactPath].data))))

writePresubmitFile(f, projectPath, bcrVersionEntryPath) ==
    LET presubmitPath == Resolve(Resolve(<<projectPath>>, <<".bcr">>),
                                 <<"presubmit.yml">>)
        dest == Resolve(bcrVersionEntryPath, <<"presubmit.yml">>)
    IN  IF copyFails(f, presubmitPath, dest) THEN Threw(f)
        ELSE Returned(copyFileSync(f, presubmitPath, dest))

----------------------------------------------------------------------------
(* The inputs: projects, tags, the registry checkout, response bodies *)

ModuleTemplate ==
    <<"module(", "name = \"", "foo", "\"", ", version = \"",
      "VERSION_PLACEHOLDER", "\"", ", repo = \"", "REPO_PLACEHOLDER", "\"", ")">>

\* a manifest that refers to the version twice
ModuleTemplateTwice ==
    ModuleTemplate \o <<"archive(", "VERSION_PLACEHOLDER", ")">>

\* a manifest whose module() call gives no name
ModuleTemplateNoName ==
    <<"module(", "version = \"", "VERSION_PLACEHOLDER", "\"", ")">>

MetadataTemplate == JSONStringify([versions |-> <<>>])

\* integrity, strip_prefix, url: REPO_PLACEHOLDER comes first
SourceTemplate ==
    <<"{integrity: ", "SHA256_PLACEHOLDER", ", strip_prefix: ",
      "REPO_PLACEHOLDER", "-", "VERSION_PLACEHOLDER", ", url: github.com/",
      "OWNER_SLASH_", "REPO_PLACEHOLDER", "/archive/v", "VERSION_PLACEHOLDER",
      ".tar.gz}">>

\* url, strip_prefix, integrity: OWNER_SLASH_REPO_PLACEHOLDER comes first
SourceTemplateUrlFirst ==
    <<"{url: github.com/", "OWNER_SLASH_", "REPO_PLACEHOLDER", "/archive/v",
      "VERSION_PLACEHOLDER", ".tar.gz", ", strip_prefix: ", "REPO_PLACEHOLDER",
      ", integrity: ", "SHA256_PLACEHOLDER", "}">>

PresubmitFile == <<"presubmit">>

Absent == <<"<absent>">>

\* the files of each project's .bcr folder (Absent: no such file)
Projects ==
    [p \in {"good", "other", "noname", "nosource", "nopresubmit"} |->
        CASE p = "good" ->
                [module |-> ModuleTemplate, metadata |-> MetadataTemplate,
                 source |-> SourceTemplate, presubmit |-> PresubmitFile]
          [] p = "other" ->
                [module |-> ModuleTemplateTwice, metadata |-> MetadataTemplate,
                 source |-> SourceTemplateUrlFirst, presubmit |-> PresubmitFile]
          [] p = "noname" ->
                [module |-> ModuleTemplateNoName, metadata |-> MetadataTemplate,
                 source |-> SourceTemplate, presubmit |-> PresubmitFile]
          [] p = "nosource" ->
                [module |-> ModuleTemplate, metadata |-> Absent,
                 source |-> Absent, presubmit |-> PresubmitFile]
          [] p = "nopresubmit" ->
                [module |-> ModuleTemplate, metadata |-> MetadataTemplate,
                 source |-> SourceTemplate, presubmit |-> Absent]]

ProjectFile(name) ==
    CASE name = "module" -> <<"MODULE.template.bazel">>
      [] name = "metadata" -> <<"metadata.template.json">>
      [] name = "source" -> <<"source.template.json">>
      [] name = "presubmit" -> <<"presubmit.yml">>

ProjectFileNames == {"module", "metadata", "source", "presubmit"}

ProjectPath(p, name) == <<<<p>>, <<".bcr">>, ProjectFile(name)>>

Tags == {<<"v", "1">>, <<"v", "2">>, <<"v", "1", "0">>, <<"1">>}
Versions == {normalizeVersion(t) : t \in Tags} \ {Undefined}
OwnerRepos == {<<"acme", "/", "widget">>}
ModuleNames == {<<"foo">>}
BcrPath == <<"bcr">>
Bytes == {"x", "y"}

EntryPath(m) == <<BcrPath, <<"modules">>, m>>
VersionFiles == {<<"MODULE.bazel">>, <<"source.json">>, <<"presubmit.yml">>}

Paths ==
    {<<<<p>>>> : p \in DOMAIN Projects}
    \cup {<<<<p>>, <<".bcr">>>> : p \in DOMAIN Projects}
    \cup {ProjectPath(p, n) : p \in DOMAIN Projects, n \in ProjectFileNames}
    \cup {<<BcrPath>>, <<BcrPath, <<"modules">>>>, ArtifactPath}
    \cup {EntryPath(m) : m \in ModuleNames}
    \cup {Resolve(EntryPath(m), <<"metadata.json">>) : m \in ModuleNames}
    \cup {Resolve(EntryPath(m), v) : m \in ModuleNames, v \in Versions}
    \cup {Resolve(Resolve(EntryPath(m), v), n) :
             m \in ModuleNames, v \in Versions, n \in VersionFiles}

\* the paths under bcr_path
RegistryPaths == {p \in Paths : p[1] = BcrPath}

\* the checked-out projects and a registry checkout with no entries
CheckedOut ==
    [p \in Paths |->
        IF \E q \in DOMAIN Projects, n \in ProjectFileNames :
              p = ProjectPath(q, n)
        THEN LET q == p[1][1]
                 n == CHOOSE m \in ProjectFileNames : p[3] = ProjectFile(m)
             IN  IF Projects[q][n] = Absent THEN NoEnt
                 ELSE File(Projects[q][n])
        ELSE IF p = ArtifactPath \/ (p[1] = BcrPath /\ Len(p) > 2) THEN NoEnt
        ELSE Dir]

\* the command lines: four arguments, or three (no owner/repo), or five
Argvs ==
    {<<<<p>>, BcrPath, o, t>> : p \in DOMAIN Projects, o \in OwnerRepos,
                                t \in Tags}
    \cup {<<<<"good">>, BcrPath, <<"v", "1">>>>}
    \cup {<<<<"good">>, BcrPath, o, <<"v", "1">>, <<"extra">>>> :
             o \in OwnerRepos}

----------------------------------------------------------------------------
(* The state machine *)

Steps == <<"parse", "metadata", "mkdir", "module", "source", "presubmit">>

Init ==
    /\ \E hasEntry \in BOOLEAN :
          fs = [CheckedOut EXCEPT ![EntryPath(<<"foo">>)] =
                    IF hasEntry THEN Dir ELSE NoEnt]
    /\ pc = "idle"
    /\ argv = <<>>
    /\ version = Undefined
    /\ moduleName = Undefined
    /\ exit = "none"
    /\ runs = 0
    /\ received = <<>>
    /\ done = {}
    /\ fs0 = fs

bcrEntryPath == Resolve(Resolve(<<argv[2]>>, <<"modules">>), moduleName)
bcrVersionEntryPath == Resolve(bcrEntryPath, version)

\* faulty variant: the catch of the entry point logs the error and ends normally
ExitZero(status) ==
    /\ pc' = "idle"
    /\ exit' = "0"

\* process.exit(status), from main or from the catch of the entry point
Exit(status) ==
    /\ pc' = "idle"
    /\ exit' = IF status = 0 THEN "0" ELSE "1"

\* one synchronous step of main that returned r: go on to next, or exit 1
Step(r, name, next) ==
    /\ fs' = r.fs
    /\ IF r.ok THEN /\ pc' = next
                    /\ done' = done \cup {name}
                    /\ exit' = exit
       ELSE /\ Exit(1)
            /\ done' = done

\* the entry point calls main: argument check, normalizeVersion,
\* getModuleName and the two resolve calls
Begin(a) ==
    /\ pc = "idle"
    /\ runs < MaxRuns
    /\ runs' = runs + 1
    /\ argv' = a
    /\ received' = <<>>
    /\ fs0' = fs
    /\ fs' = fs
    /\ IF Len(a) # 4
       THEN /\ Exit(1)
            /\ done' = {}
            /\ UNCHANGED <<version, moduleName>>
       ELSE LET v == normalizeVersion(a[4])
                p == a[1]
            IN  IF getModuleNameThrows(fs, p)
                THEN /\ Exit(1)
                     /\ done' = {}
                     /\ version' = v
                     /\ UNCHANGED moduleName
                ELSE IF v = Undefined
                THEN \* resolve(bcrEntryPath, undefined) throws a TypeError
                     /\ Exit(1)
                     /\ done' = {"parse"}
                     /\ version' = v
                     /\ moduleName' = getModuleName(fs, p)
                ELSE /\ pc' = "metadata"
                     /\ done' = {"parse"}
                     /\ version' = v
                     /\ moduleName' = getModuleName(fs, p)
                     /\ exit' = exit

WriteMetadataFile ==
    /\ pc = "metadata"
    /\ Step(writeMetadataFile(fs, bcrEntryPath, argv[1], version),
            "metadata", "mkdir")
    /\ UNCHANGED <<argv, version, moduleName, runs, received, fs0>>

Mkdir ==
    /\ pc = "mkdir"
    /\ Step(IF mkdirFails(fs, bcrVersionEntryPath) THEN Threw(fs)
            ELSE Returned(mkdirSync(fs, bcrVersionEntryPath)),
            "mkdir", "module")
    /\ UNCHANGED <<argv, version, moduleName, runs, received, fs0>>

\* writeModuleFile, then writeSourceFile up to its await: the request is
\* sent
WriteModuleFile ==
    /\ pc = "module"
    /\ Step(writeModuleFile(fs, argv[1], bcrVersionEntryPath, argv[3],
                            version),
            "module", "downloading")
    /\ UNCHANGED <<argv, version, moduleName, runs, received, fs0>>

\* response.on("data"): a chunk is appended to ./artifact.tar.gz
OnData(chunk) ==
    /\ pc = "downloading"
    /\ Len(received) < MaxChunks
    /\ fs' = appendFileSync(fs, ArtifactPath, chunk)
    /\ received' = received \o chunk
    /\ UNCHANGED <<pc, argv, version, moduleName, exit, runs, done, fs0>>

\* response.on("end"): the promise resolves and writeSourceFile goes on
OnEnd ==
    /\ pc = "downloading"
    /\ Step(writeSourceFileRest(fs, argv[1], bcrVersionEntryPath, argv[3],
                                version),
            "source", "presubmit")
    /\ UNCHANGED <<argv, version, moduleName, runs, received, fs0>>

\* the request's "error": the promise rejects
OnError ==
    /\ pc = "downloading"
    /\ Exit(1)
    /\ UNCHANGED <<fs, argv, version, moduleName, runs, received, done, fs0>>

\* writePresubmitFile; main returns and the process ends with status 0
WritePresubmitFile ==
    /\ pc = "presubmit"
    /\ LET r == writePresubmitFile(fs, argv[1], bcrVersionEntryPath)
       IN  /\ fs' = r.fs
           /\ IF r.ok THEN Exit(0) /\ done' = done \cup {"presubmit"}
              ELSE Exit(1) /\ done' = done
    /\ UNCHANGED <<argv, version, moduleName, runs, received, fs0>>

Next ==
    \/ \E a \in Argvs : Begin(a)
    \/ WriteMetadataFile
    \/ Mkdir
    \/ WriteModuleFile
    \/ \E b \in Bytes : OnData(<<b>>)
    \/ OnEnd
    \/ OnError
    \/ WritePresubmitFile

Spec == Init /\ [][Next]_vars

----------------------------------------------------------------------------
(* The Metadata Merger on its own: writeMetadataFile applied to a         *)
(* registry whose metadata.json lists any versions, in any order.         *)

MergeVersions == Versions \cup {<<"1", ".", "0">>}

MetadataPath == Resolve(EntryPath(<<"foo">>), <<"metadata.json">>)

InitMerge ==
    /\ \E n \in 0..MaxLen : \E L \in [1..n -> MergeVersions] :
          fs = [CheckedOut EXCEPT
                   ![EntryPath(<<"foo">>)] = Dir,
                   ![MetadataPath] = File(JSONStringify([versions |-> L]))]
    /\ \E x \in MergeVersions, o \in OwnerRepos :
          /\ version = x
          /\ argv = <<<<"good">>, BcrPath, o, <<"v">> \o x>>
    /\ pc = "metadata"
    /\ moduleName = <<"foo">>
    /\ exit = "none"
    /\ runs = 1
    /\ received = <<>>
    /\ done = {"parse"}
    /\ fs0 = fs

NextMerge == WriteMetadataFile

SpecMerge == InitMerge /\ [][NextMerge]_vars

----------------------------------------------------------------------------
(* Properties *)

\* the versions list of the registry's metadata.json in tree f
VersionsIn(f) == JSONParse(f[MetadataPath].data).versions

Count(s, x) == Cardinality({i \in 1..Len(s) : s[i] = x})

\* the run got past the argument check, the name parse and the resolves
Resolved == runs > 0 /\ Len(argv) = 4 /\ "parse" \in done /\ version # Undefined

\* the run has ended
Ended == runs > 0 /\ pc = "idle"

VersionFile(n) == Resolve(bcrVersionEntryPath, n)

\* C1: a run whose version directory already existed when it started
\* ends leaving every file under bcr_path, metadata.json included, as it
\* was before the run.
C1_FailedRunWritesNothing ==
    (Ended /\ Resolved /\ existsSync(fs0, bcrVersionEntryPath))
        => \A p \in RegistryPaths : fs[p] = fs0[p]

\* C2: a run for a version whose directory an earlier run created stops
\* at directory creation with exit status 1 (the metadata step done, the
\* directory step not), and MODULE.bazel, source.json and presubmit.yml of
\* that directory stay as the earlier run left them.
C2_SecondRunFailsAtMkdir ==
    (Resolved /\ existsSync(fs0, bcrVersionEntryPath))
        => /\ pc \in {"metadata", "mkdir", "idle"}
           /\ pc = "idle" => (exit = "1" /\ done = {"parse", "metadata"})
           /\ \A n \in VersionFiles : fs[VersionFile(n)] = fs0[VersionFile(n)]

\* C2 witness: the second run has failed at directory creation over the
\* three files of a first, successful run
C2_Witness ==
    /\ Ended /\ Resolved /\ exit = "1" /\ done = {"parse", "metadata"}
    /\ \A n \in VersionFiles : IsFile(fs0, VersionFile(n))

\* C3: the versions list of metadata.json never holds a version twice.
C3_VersionsUnique ==
    IsFile(fs, MetadataPath)
        => \A v \in Versions : Count(VersionsIn(fs), v) <= 1

\* C4: the version main works with is the tag without its one leading
\* "v", or the tag itself when it has none.
C4_NormalizedOrAsIs ==
    (runs > 0 /\ Len(argv) = 4)
        => version = IF StartsWith(argv[4], <<"v">>)
                     THEN Substring(argv[4], 1) ELSE argv[4]

\* C5: after the merge of version x into a list L (any order), the
\* versions list is ascending in string order and holds exactly the
\* elements of L and x, each as often as L and x hold it.
C5_MergeSortsAndKeeps ==
    pc = "mkdir"
        => LET L == VersionsIn(fs0)
               R == VersionsIn(fs)
           IN  /\ Len(R) = Len(L) + 1
               /\ \A i, j \in 1..Len(R) : i < j => ~StrLess(R[j], R[i])
               /\ \A v \in MergeVersions :
                     Count(R, v) = Count(L, v) + (IF v = version THEN 1 ELSE 0)

\* C5 witness: "10" merged into the unsorted list "2", "1"
C5_Witness ==
    /\ pc = "mkdir"
    /\ VersionsIn(fs0) = <<<<"2">>, <<"1">>>>
    /\ version = <<"1", "0">>
    /\ VersionsIn(fs) = <<<<"1">>, <<"1", "0">>, <<"2">>>>

\* C6: a run that starts with no modules/<module_name> directory and no
\* metadata.json, from a project that has a metadata template, ends with
\* metadata.json listing the template's versions and the new one, and
\* with the version directory created.
C6_FirstPublishCreatesEntry ==
    (/\ Ended /\ Resolved
     /\ ~existsSync(fs0, bcrEntryPath)
     /\ IsFile(fs0, ProjectPath(argv[1][1], "metadata")))
        => /\ IsFile(fs, MetadataPath)
           /\ VersionsIn(fs) = Sort(Append(
                  JSONParse(fs0[ProjectPath(argv[1][1], "metadata")].data).versions,
                  version))
           /\ IsDir(fs, bcrVersionEntryPath)

\* every placeholder put in place, whatever the order of the tokens
RECURSIVE Stamped(_, _, _, _)
Stamped(t, ownerSlashRepo, ver, digest) ==
    IF t = <<>> THEN <<>>
    ELSE IF StartsWith(t, OWNER_SLASH_REPO_PLACEHOLDER)
         THEN ownerSlashRepo
              \o Stamped(Substring(t, 2), ownerSlashRepo, ver, digest)
    ELSE (CASE <<Head(t)>> = REPO_PLACEHOLDER -> RepoOf(ownerSlashRepo)
            [] <<Head(t)>> = VERSION_PLACEHOLDER -> ver
            [] <<Head(t)>> = SHA256_PLACEHOLDER -> <<"sha256-">> \o digest
            [] OTHER -> <<Head(t)>>)
         \o Stamped(Tail(t), ownerSlashRepo, ver, digest)

HasPlaceholder(t) ==
    \E i \in 1..Len(t) :
        t[i] \in {"REPO_PLACEHOLDER", "OWNER_SLASH_", "VERSION_PLACEHOLDER",
                  "SHA256_PLACEHOLDER"}

\* C7: the written source.json is its template with the repository name,
\* owner/repo, version and "sha256-" + digest in place of their
\* placeholders, and holds no placeholder.
C7_SourceFullyStamped ==
    (Resolved /\ "source" \in done)
        => LET out == fs[VersionFile(<<"source.json">>)].data
               tpl == fs[ProjectPath(argv[1][1], "source")].data
           IN  /\ ~HasPlaceholder(out)
               /\ out = Stamped(tpl, argv[3], version,
                                Sha256Base64(fs[ArtifactPath].data))

\* C8: the written MODULE.bazel holds no VERSION_PLACEHOLDER, however
\* often its template refers to it.
C8_ManifestHasNoVersionPlaceholder ==
    (Resolved /\ "module" \in done)
        => IndexOf(fs[VersionFile(<<"MODULE.bazel">>)].data,
                   VERSION_PLACEHOLDER) = 0

\* the first k steps of main
FirstSteps(k) == {Steps[i] : i \in 1..k}

\* the paths a step writes
StepPaths(name) ==
    CASE name = "parse" -> {}
      [] name = "metadata" -> {Resolve(bcrEntryPath, <<"metadata.json">>)}
      [] name = "mkdir" -> {bcrVersionEntryPath}
      [] name = "module" -> {VersionFile(<<"MODULE.bazel">>)}
      [] name = "source" -> {ArtifactPath, VersionFile(<<"source.json">>)}
      [] name = "presubmit" -> {VersionFile(<<"presubmit.yml">>)}

C10_DigestOfThisRunsBody ==
    (Ended /\ exit = "0")
        => IndexOf(fs[VersionFile(<<"source.json">>)].data,
                   <<"sha256-">> \o Sha256Base64(received)) # 0

====
